---- MODULE Spec2Model ----
(***************************************************************************)
(* One-dimensional table interpolation, include/openmc/interpolate.h.      *)
(*                                                                         *)
(* A double is modelled as an exact rational <<num, den>> (den > 0, lowest *)
(* terms).  log and exp are modelled in base 2 on the values where they    *)
(* are rational: ln(a)/ln(b) = log2(a)/log2(b) and                         *)
(* exp(f*ln(r)) = 2^(f*log2(r)), so the kernels are exact on powers of 2.  *)
(* Vector indices are 0-based as in the source; At(s, k) is s[k].          *)
(***************************************************************************)
EXTENDS Integers, Sequences, FiniteSets, TLC

\* ------------------------------------------------------------------ bounds
MaxN == 4          \* longest table; grid values are drawn from 1..MaxN
NThreads == 2      \* concurrent callers in ConcSpec

\* -------------------------------------------------------------- rationals
Abs(a) == IF a < 0 THEN -a ELSE a

RECURSIVE Gcd(_, _)
Gcd(a, b) == IF b = 0 THEN a ELSE Gcd(b, a % b)

Norm(n, d) ==
  LET g == Gcd(Abs(n), Abs(d))
      s == IF d < 0 THEN -1 ELSE 1
  IN <<(s * n) \div g, (s * d) \div g>>

R(k) == <<k, 1>>
RAdd(a, b) == Norm(a[1] * b[2] + b[1] * a[2], a[2] * b[2])
RSub(a, b) == Norm(a[1] * b[2] - b[1] * a[2], a[2] * b[2])
RMul(a, b) == Norm(a[1] * b[1], a[2] * b[2])
RDiv(a, b) == Norm(a[1] * b[2], a[2] * b[1])
RLe(a, b) == a[1] * b[2] <= b[1] * a[2]

\* static_cast<int>(double): truncation toward zero
Trunc(a) == IF a[1] >= 0 THEN a[1] \div a[2] ELSE -((-a[1]) \div a[2])

RECURSIVE Pow2(_)
Pow2(k) == IF k = 0 THEN 1 ELSE 2 * Pow2(k - 1)

IsPow2(m) == \E k \in 0..12 : Pow2(k) = m
Log2Int(m) == CHOOSE k \in 0..12 : Pow2(k) = m

\* log is representable on q = 2^a / 2^b
LogOK(q) == q[1] > 0 /\ IsPow2(q[1]) /\ IsPow2(q[2])
Log(q) == R(Log2Int(q[1]) - Log2Int(q[2]))
\* exp is representable on integers
ExpOK(q) == q[2] = 1 /\ Abs(q[1]) <= 12
Exp(q) == IF q[1] >= 0 THEN R(Pow2(q[1])) ELSE <<1, Pow2(-q[1])>>

At(s, k) == s[k + 1]
InB(s, k) == 0 <= k /\ k <= Len(s) - 1

\* ---------------------------------------------------------------- kernels
interpolate_lin_lin(x0, x1, y0, y1, x) ==
  RAdd(y0, RMul(RDiv(RSub(x, x0), RSub(x1, x0)), RSub(y1, y0)))

interpolate_lin_log(x0, x1, y0, y1, x) ==
  RAdd(y0, RMul(RDiv(Log(RDiv(x, x0)), Log(RDiv(x1, x0))), RSub(y1, y0)))

interpolate_log_lin(x0, x1, y0, y1, x) ==
  RMul(y0, Exp(RMul(RDiv(RSub(x, x0), RSub(x1, x0)), Log(RDiv(y1, y0)))))

interpolate_log_log(x0, x1, y0, y1, x) ==
  LET f == RDiv(Log(RDiv(x, x0)), Log(RDiv(x1, x0)))
  IN RMul(y0, Exp(RMul(f, Log(RDiv(y1, y0)))))

\* ------------------------------------------------------------------ inputs
Laws == {"lin_lin", "lin_log", "log_lin", "log_log", "quadratic", "cubic"}
PointwiseLaws == {"lin_lin", "lin_log", "log_lin", "log_log"}
\* a value of the enumeration type that none of the six laws has
OtherLaws == {"other"}
LawValues == Laws \cup OtherLaws

\* stencil order of a higher-order law
OrderOf(l) == IF l = "quadratic" THEN 2 ELSE 3

\* the strictly increasing sequence of the members of S
GridOf(S) ==
  LET s == CHOOSE f \in [1..Cardinality(S) -> S] :
             \A a, b \in 1..Cardinality(S) : a < b => f[a] < f[b]
  IN [k \in 1..Cardinality(S) |-> R(s[k])]

Grids == {GridOf(S) : S \in {T \in SUBSET (1..MaxN) : Cardinality(T) >= 2}}

\* polynomials c0 + c1 x + c2 x^2 + c3 x^3 that tabulate ys
Polys == [0..3 -> {0, 1}]
Degree(p) == IF p[3] # 0 THEN 3 ELSE IF p[2] # 0 THEN 2 ELSE IF p[1] # 0 THEN 1 ELSE 0
Eval(p, q) ==
  RAdd(R(p[0]), RMul(q, RAdd(R(p[1]), RMul(q, RAdd(R(p[2]), RMul(q, R(p[3])))))))
Tabulate(p, g) == [k \in 1..Len(g) |-> Eval(p, g[k])]

\* query points: the halves from -1 to MaxN + 1
Queries == {Norm(k, 2) : k \in -2..(2 * MaxN + 2)}

\* the workload of the concurrent specification
ConcGrid == [k \in 1..MaxN |-> R(k)]
ConcPoly == [k \in 0..3 |-> IF k = 2 THEN 1 ELSE 0]
ConcQueries == {<<1, 2>>, R(1)}
ConcLaws == {"lin_lin", "quadratic", "cubic"}

\* the values an out-of-bounds read can make a result take
Garbage == {R(0), R(7)}

None == <<>>
Threads == 1..NThreads

\* ------------------------------------------------------------------- state
VARIABLES
  xs, ys,        \* the caller's table
  pc,            \* per call: "idle", "switch", "lagr", "done", "fatal", "crashed"
  x, law,        \* interpolate's arguments
  idx,           \* interpolate's local idx
  lg_idx, lg_x, lg_order,  \* interpolate_lagrangian's parameters idx, x, order
  lg_i,          \* interpolate_lagrangian's loop counter i
  coeffs,        \* interpolate_lagrangian's local coeffs
  result,        \* the value returned
  reads          \* the indices at which the call has read xs or ys

vars == <<xs, ys, pc, x, law, idx, lg_idx, lg_x, lg_order, lg_i, coeffs, result, reads>>
table == <<xs, ys>>
lagr == <<lg_idx, lg_x, lg_order, lg_i, coeffs>>

n == Len(xs)

\* ----------------------------------------------------------------- locator
\* lower_bound_index(xs.begin(), xs.end(), x): the bracket index in [0, n-2]
lower_bound_index(s, q) ==
  LET below == {k \in 0..(Len(s) - 1) : RLe(At(s, k), q)}
      last == CHOOSE k \in below : \A m \in below : m <= k
  IN IF below = {} THEN 0
     ELSE IF last > Len(s) - 2 THEN Len(s) - 2 ELSE last

\* ------------------------------------------------------------ preconditions
\* the operands on which the kernel of law l is computed without a
\* non-finite value (and, for log and exp, within what the model represents)
FracOK(x0, x1, q) ==
  /\ x0[1] > 0 /\ q[1] > 0
  /\ LogOK(RDiv(q, x0)) /\ LogOK(RDiv(x1, x0))
RatioOK(y0, y1) == y0[1] > 0 /\ y1[1] > 0 /\ LogOK(RDiv(y1, y0))

KernelDefined(l, x0, x1, y0, y1, q) ==
  CASE l = "lin_lin" -> TRUE
    [] l = "lin_log" -> FracOK(x0, x1, q)
    [] l = "log_lin" ->
         /\ RatioOK(y0, y1)
         /\ ExpOK(RMul(RDiv(RSub(q, x0), RSub(x1, x0)), Log(RDiv(y1, y0))))
    [] l = "log_log" ->
         /\ FracOK(x0, x1, q) /\ RatioOK(y0, y1)
         /\ ExpOK(RMul(RDiv(Log(RDiv(q, x0)), Log(RDiv(x1, x0))), Log(RDiv(y1, y0))))
    [] OTHER -> TRUE

Precondition(s, t, q, l) ==
  /\ l = "quadratic" => Len(s) >= 3
  /\ l = "cubic" => Len(s) >= 4
  /\ LET k == lower_bound_index(s, q)
     IN KernelDefined(l, At(s, k), At(s, k + 1), At(t, k), At(t, k + 1), q)

\* ------------------------------------------------- interpolate_lagrangian
\* the inner loop "for (int j = 0; j < order; j++)" of window position i,
\* from j on, with the running numerator and denominator
RECURSIVE InnerLoop(_, _, _, _, _, _, _, _)
InnerLoop(s, k, q, order, i, j, numerator, denominator) ==
  IF ~(j < order) THEN <<numerator, denominator>>
  ELSE IF i = j THEN InnerLoop(s, k, q, order, i, j + 1, numerator, denominator)
  ELSE InnerLoop(s, k, q, order, i, j + 1,
                 RMul(numerator, RSub(q, At(s, k + j))),
                 RMul(denominator, RSub(At(s, k + i), At(s, k + j))))

\* the value pushed onto coeffs for window position i
Coeff(s, k, q, order, i) ==
  LET nd == InnerLoop(s, k, q, order, i, 0, R(1), R(1))
  IN RDiv(nd[1], nd[2])

\* the indices of xs that the loop body of window position i reads
CoeffReads(k, order, i) ==
  LET js == {j \in 0..(order - 1) : j # i}
  IN {k + j : j \in js} \cup (IF js = {} THEN {} ELSE {k + i})

\* std::inner_product(coeffs.begin(), coeffs.end(), ys.begin() + idx, 0.0)
RECURSIVE InnerProduct(_, _, _, _, _)
InnerProduct(c, t, k, m, acc) ==
  IF m = Len(c) THEN acc
  ELSE InnerProduct(c, t, k, m + 1, RAdd(acc, RMul(At(c, m), At(t, k + m))))

\* the indices of ys that inner_product reads
ProductReads(c, k) == {k + m : m \in 0..(Len(c) - 1)}

\* ------------------------------------------------------------ interpolate
\* the switch with the log_log case left out
CaseLabelsNoLogLog == {"lin_lin", "lin_log", "log_lin", "quadratic", "cubic"}

\* the case labels of the switch
CaseLabels == {"lin_lin", "log_log", "lin_log", "log_lin", "quadratic", "cubic"}

\* the lin_log case calling the lin_lin kernel
PointwiseKernelMixed(l, x0, x1, y0, y1, q) ==
  CASE l = "lin_lin" -> interpolate_lin_lin(x0, x1, y0, y1, q)
    [] l = "log_log" -> interpolate_log_log(x0, x1, y0, y1, q)
    [] l = "lin_log" -> interpolate_lin_lin(x0, x1, y0, y1, q)
    [] l = "log_lin" -> interpolate_log_lin(x0, x1, y0, y1, q)

\* the kernel each pointwise case applies
PointwiseKernel(l, x0, x1, y0, y1, q) ==
  CASE l = "lin_lin" -> interpolate_lin_lin(x0, x1, y0, y1, q)
    [] l = "log_log" -> interpolate_log_log(x0, x1, y0, y1, q)
    [] l = "lin_log" -> interpolate_lin_log(x0, x1, y0, y1, q)
    [] l = "log_lin" -> interpolate_log_lin(x0, x1, y0, y1, q)

\* the quadratic shift testing the last point instead of the last interval
ShiftQuadraticLate(size, k) == IF k = size - 1 /\ k > 0 THEN k - 1 ELSE k

\* case quadratic: if (idx == xs.size() - 2 && idx > 0) idx--;
ShiftQuadratic(size, k) == IF k = size - 2 /\ k > 0 THEN k - 1 ELSE k

\* the cubic shift without its second decrement
ShiftCubicOnce(size, k) == IF k > 0 THEN k - 1 ELSE k

\* case cubic: if (idx > 0) idx--; if (idx == xs.size() - 3) idx--;
ShiftCubic(size, k) ==
  LET k1 == IF k > 0 THEN k - 1 ELSE k
  IN IF k1 = size - 3 THEN k1 - 1 ELSE k1

\* the call interpolate_lagrangian(xs, ys, x, idx, order) against the
\* parameter list (xs, ys, int idx, double x, int order): the third argument
\* is converted to int, the fourth to double
LagrangianCall(q, k, order) == [idx |-> Trunc(q), x |-> R(k), order |-> order]

\* one static coefficient buffer for every call
FrameStatic(t) == 1

\* the storage that holds the locals of the call made by thread t: coeffs is
\* an automatic variable of interpolate_lagrangian
Frame(t) == t

Alive == \A t \in Threads : pc[t] \notin {"fatal", "crashed"}

\* int idx = lower_bound_index(xs.begin(), xs.end(), x);
CallFrom(t, qs, ls) ==
  /\ Alive
  /\ pc[t] = "idle"
  /\ \E q \in qs, l \in ls :
       /\ Precondition(xs, ys, q, l)
       /\ x' = [x EXCEPT ![t] = q]
       /\ law' = [law EXCEPT ![t] = l]
       /\ idx' = [idx EXCEPT ![t] = lower_bound_index(xs, q)]
  /\ pc' = [pc EXCEPT ![t] = "switch"]
  /\ UNCHANGED <<table, lagr, result, reads>>

Call(t) == CallFrom(t, Queries, LawValues)

ConcCall(t) == CallFrom(t, ConcQueries, ConcLaws)

\* entering interpolate_lagrangian from the case of order `order`
EnterLagrangian(t, k, order) ==
  LET a == LagrangianCall(x[t], k, order)
  IN /\ idx' = [idx EXCEPT ![t] = k]
     /\ lg_idx' = [lg_idx EXCEPT ![t] = a.idx]
     /\ lg_x' = [lg_x EXCEPT ![t] = a.x]
     /\ lg_order' = [lg_order EXCEPT ![t] = a.order]
     /\ lg_i' = [lg_i EXCEPT ![t] = 0]
     /\ coeffs' = [coeffs EXCEPT ![Frame(t)] = <<>>]
     /\ pc' = [pc EXCEPT ![t] = "lagr"]
     /\ UNCHANGED <<table, x, law, result, reads>>

\* switch (i)
Dispatch(t) ==
  /\ Alive
  /\ pc[t] = "switch"
  /\ \/ /\ law[t] \in CaseLabels \cap PointwiseLaws
        /\ result' = [result EXCEPT ![t] =
             PointwiseKernel(law[t], At(xs, idx[t]), At(xs, idx[t] + 1),
                             At(ys, idx[t]), At(ys, idx[t] + 1), x[t])]
        /\ reads' = [reads EXCEPT ![t] = {idx[t], idx[t] + 1}]
        /\ pc' = [pc EXCEPT ![t] = "done"]
        /\ UNCHANGED <<table, x, law, idx, lagr>>
     \/ /\ law[t] \in CaseLabels /\ law[t] = "quadratic"
        /\ EnterLagrangian(t, ShiftQuadratic(n, idx[t]), 2)
     \/ /\ law[t] \in CaseLabels /\ law[t] = "cubic"
        /\ EnterLagrangian(t, ShiftCubic(n, idx[t]), 3)
     \/ /\ law[t] \notin CaseLabels
        /\ pc' = [pc EXCEPT ![t] = "fatal"]
        /\ UNCHANGED <<table, x, law, idx, lagr, result, reads>>

\* an out-of-bounds read of xs or ys: the process may die
Crash(t) ==
  /\ pc' = [pc EXCEPT ![t] = "crashed"]
  /\ UNCHANGED <<table, x, law, idx, lagr, result>>

\* one iteration of "for (int i = 0; i < order + 1; i++)"
LagrCoeff(t) ==
  /\ Alive
  /\ pc[t] = "lagr"
  /\ lg_i[t] < lg_order[t] + 1
  /\ LET rd == CoeffReads(lg_idx[t], lg_order[t], lg_i[t])
         inb == \A k \in rd : InB(xs, k)
     IN /\ reads' = [reads EXCEPT ![t] = @ \cup rd]
        /\ \/ /\ inb
              /\ coeffs' = [coeffs EXCEPT ![Frame(t)] =
                   Append(@, Coeff(xs, lg_idx[t], lg_x[t], lg_order[t], lg_i[t]))]
              /\ lg_i' = [lg_i EXCEPT ![t] = @ + 1]
              /\ UNCHANGED <<table, pc, x, law, idx, lg_idx, lg_x, lg_order, result>>
           \/ /\ ~inb
              /\ \E g \in Garbage : coeffs' = [coeffs EXCEPT ![Frame(t)] = Append(@, g)]
              /\ lg_i' = [lg_i EXCEPT ![t] = @ + 1]
              /\ UNCHANGED <<table, pc, x, law, idx, lg_idx, lg_x, lg_order, result>>
           \/ /\ ~inb
              /\ Crash(t)

\* return std::inner_product(...)
LagrReturn(t) ==
  /\ Alive
  /\ pc[t] = "lagr"
  /\ ~(lg_i[t] < lg_order[t] + 1)
  /\ LET c == coeffs[Frame(t)]
         rd == ProductReads(c, lg_idx[t])
         inb == \A k \in rd : InB(ys, k)
     IN /\ reads' = [reads EXCEPT ![t] = @ \cup rd]
        /\ \/ /\ inb
              /\ result' = [result EXCEPT ![t] = InnerProduct(c, ys, lg_idx[t], 0, R(0))]
              /\ pc' = [pc EXCEPT ![t] = "done"]
              /\ UNCHANGED <<table, x, law, idx, lagr>>
           \/ /\ ~inb
              /\ \E g \in Garbage : result' = [result EXCEPT ![t] = g]
              /\ pc' = [pc EXCEPT ![t] = "done"]
              /\ UNCHANGED <<table, x, law, idx, lagr>>
           \/ /\ ~inb
              /\ Crash(t)

\* the call has returned: its arguments and locals are gone
Return(t) ==
  /\ Alive
  /\ pc[t] = "done"
  /\ pc' = [pc EXCEPT ![t] = "idle"]
  /\ x' = [x EXCEPT ![t] = None]
  /\ law' = [law EXCEPT ![t] = "none"]
  /\ idx' = [idx EXCEPT ![t] = 0]
  /\ lg_idx' = [lg_idx EXCEPT ![t] = 0]
  /\ lg_x' = [lg_x EXCEPT ![t] = None]
  /\ lg_order' = [lg_order EXCEPT ![t] = 0]
  /\ lg_i' = [lg_i EXCEPT ![t] = 0]
  /\ coeffs' = [coeffs EXCEPT ![Frame(t)] = <<>>]
  /\ result' = [result EXCEPT ![t] = None]
  /\ reads' = [reads EXCEPT ![t] = {}]
  /\ UNCHANGED table

\* ---------------------------------------------------------- specifications
InitCalls ==
  /\ pc = [t \in Threads |-> "idle"]
  /\ x = [t \in Threads |-> None]
  /\ law = [t \in Threads |-> "none"]
  /\ idx = [t \in Threads |-> 0]
  /\ lg_idx = [t \in Threads |-> 0]
  /\ lg_x = [t \in Threads |-> None]
  /\ lg_order = [t \in Threads |-> 0]
  /\ lg_i = [t \in Threads |-> 0]
  /\ coeffs = [t \in Threads |-> <<>>]
  /\ result = [t \in Threads |-> None]
  /\ reads = [t \in Threads |-> {}]

\* one caller, any table
Init ==
  /\ xs \in Grids
  /\ \E p \in Polys : ys = Tabulate(p, xs)
  /\ InitCalls

Next ==
  \/ Call(1)
  \/ Dispatch(1)
  \/ LagrCoeff(1)
  \/ LagrReturn(1)
  \/ Return(1)

Spec == Init /\ [][Next]_vars

\* NThreads callers sharing one table
ConcInit ==
  /\ xs = ConcGrid
  /\ ys = Tabulate(ConcPoly, ConcGrid)
  /\ InitCalls

ConcNext ==
  \E t \in Threads :
    \/ ConcCall(t)
    \/ Dispatch(t)
    \/ LagrCoeff(t)
    \/ LagrReturn(t)
    \/ Return(t)

ConcSpec == ConcInit /\ [][ConcNext]_vars

\* ------------------------------------------------------------------ claims
Raw(t) == lower_bound_index(xs, x[t])
Min(a, b) == IF a < b THEN a ELSE b
Max(a, b) == IF a > b THEN a ELSE b
HigherOrder(t) == law[t] \in {"quadratic", "cubic"}
Shifted(t) == pc[t] \in {"lagr", "done", "crashed"} /\ HigherOrder(t)
WindowInBounds(t) == lg_idx[t] >= 0 /\ lg_idx[t] + lg_order[t] <= n - 1

\* C1: for Quadratic and Cubic, on a table of n >= order+1 points, the
\* stencil start idx that interpolate holds after its shift logic satisfies
\* 0 <= idx <= n-1-order.
StencilContainment ==
  \A t \in Threads :
    Shifted(t) => 0 <= idx[t] /\ idx[t] <= n - 1 - OrderOf(law[t])

\* a Cubic query in the last interval, both decrements applied
StencilContainmentWitness ==
  \E t \in Threads :
    /\ pc[t] = "lagr" /\ law[t] = "cubic"
    /\ Raw(t) = n - 2 /\ idx[t] = n - 4

\* C9: the shift logic is a clamp: idx = min(raw, n-3) for Quadratic and
\* idx = max(0, min(raw-1, n-4)) for Cubic, and the located bracket
\* [raw, raw+1] lies inside the stencil [idx, idx+order].
ShiftIsClamp ==
  \A t \in Threads :
    Shifted(t) =>
      /\ law[t] = "quadratic" => idx[t] = Min(Raw(t), n - 3)
      /\ law[t] = "cubic" => idx[t] = Max(0, Min(Raw(t) - 1, n - 4))
      /\ idx[t] <= Raw(t) /\ Raw(t) + 1 <= idx[t] + OrderOf(law[t])

\* a Quadratic query in the last interval of a table of four points
ShiftIsClampWitness ==
  \E t \in Threads :
    /\ pc[t] = "lagr" /\ law[t] = "quadratic"
    /\ n = 4 /\ Raw(t) = 2 /\ idx[t] = 1

\* C6: a call ends in the fatal error exactly when its law is none of the
\* six; such a call returns no value, and a call with one of the six laws
\* never reaches the error and holds a value when it returns.
FatalIffUnsupported ==
  \A t \in Threads :
    /\ pc[t] = "fatal" => law[t] \notin Laws /\ result[t] = None
    /\ pc[t] \in {"lagr", "done", "crashed"} => law[t] \in Laws
    /\ pc[t] = "done" => result[t] # None

FatalIffUnsupportedWitness ==
  \E t \in Threads : pc[t] = "fatal" /\ law[t] = "other"

\* C10: each pointwise law applies its own kernel to (xs[idx], xs[idx+1],
\* ys[idx], ys[idx+1], x) with idx as the locator returned it, and for
\* LinLin the value is y0 + (x-x0)/(x1-x0)*(y1-y0) inside and outside
\* [x0, x1] alike.
PointwiseDispatch ==
  \A t \in Threads :
    pc[t] = "done" /\ law[t] \in PointwiseLaws =>
      LET k == Raw(t)
          x0 == At(xs, k)
          x1 == At(xs, k + 1)
          y0 == At(ys, k)
          y1 == At(ys, k + 1)
      IN /\ idx[t] = k
         /\ reads[t] = {k, k + 1}
         /\ law[t] = "lin_lin" =>
              result[t] = RAdd(y0, RMul(RDiv(RSub(x[t], x0), RSub(x1, x0)), RSub(y1, y0)))
         /\ law[t] = "lin_log" => result[t] = interpolate_lin_log(x0, x1, y0, y1, x[t])
         /\ law[t] = "log_lin" => result[t] = interpolate_log_lin(x0, x1, y0, y1, x[t])
         /\ law[t] = "log_log" => result[t] = interpolate_log_log(x0, x1, y0, y1, x[t])

\* xs=[1,2], ys=[1,4], LinLin at x=1.5 gives 2.5
PointwiseDispatchWitness ==
  \E t \in Threads :
    /\ xs = <<R(1), R(2)>> /\ ys = <<R(1), R(4)>>
    /\ pc[t] = "done" /\ law[t] = "lin_lin"
    /\ x[t] = <<3, 2>> /\ result[t] = <<5, 2>>

\* the values window position i's coefficient can take
CoeffOutcomes(s, k, q, order, i) ==
  IF \A r \in CoeffReads(k, order, i) : InB(s, r)
  THEN {Coeff(s, k, q, order, i)} ELSE Garbage

\* the coefficient buffers a call can hold after window positions 0..i-1
RECURSIVE BufferOutcomes(_, _, _, _, _)
BufferOutcomes(s, k, q, order, i) ==
  IF i = 0 THEN {<<>>}
  ELSE {Append(c, v) : c \in BufferOutcomes(s, k, q, order, i - 1),
                       v \in CoeffOutcomes(s, k, q, order, i - 1)}

\* the values a call of interpolate_lagrangian can return when it runs alone
LagrangianOutcomes(s, tys, k, q, order) ==
  IF \A m \in 0..order : InB(tys, k + m)
  THEN {InnerProduct(c, tys, k, 0, R(0)) : c \in BufferOutcomes(s, k, q, order, order + 1)}
  ELSE Garbage

\* the values a call of interpolate can return when it runs alone
SoloOutcomes(s, tys, q, l) ==
  LET k == lower_bound_index(s, q)
  IN CASE l \in PointwiseLaws ->
            {PointwiseKernel(l, At(s, k), At(s, k + 1), At(tys, k), At(tys, k + 1), q)}
       [] l = "quadratic" ->
            LET a == LagrangianCall(q, ShiftQuadratic(Len(s), k), 2)
            IN LagrangianOutcomes(s, tys, a.idx, a.x, a.order)
       [] l = "cubic" ->
            LET a == LagrangianCall(q, ShiftCubic(Len(s), k), 3)
            IN LagrangianOutcomes(s, tys, a.idx, a.x, a.order)
       [] OTHER -> {}

\* C7: no step of any call changes xs or ys, and under every interleaving
\* of concurrent calls a call that returns returns a value it can return
\* when it runs alone on the same table.
Reentrant ==
  [][/\ xs' = xs
     /\ ys' = ys
     /\ \A t \in Threads :
          pc'[t] = "done" => result'[t] \in SoloOutcomes(xs, ys, x'[t], law'[t])]_vars

\* one call has returned from the Lagrangian evaluation while another is
\* in the middle of filling its coefficient buffer
ReentrantWitness ==
  \E t, u \in Threads :
    /\ t # u
    /\ pc[t] = "done" /\ HigherOrder(t) /\ Len(coeffs[t]) = lg_order[t] + 1
    /\ pc[u] = "lagr" /\ Len(coeffs[u]) > 0

\* the Lagrange basis coefficient of window position i over all j # i in 0..order
RECURSIVE Basis(_, _, _, _, _, _)
Basis(s, k, q, order, i, j) ==
  IF j > order THEN R(1)
  ELSE IF j = i THEN Basis(s, k, q, order, i, j + 1)
  ELSE RMul(RDiv(RSub(q, At(s, k + j)), RSub(At(s, k + i), At(s, k + j))),
            Basis(s, k, q, order, i, j + 1))

RECURSIVE BasisSum(_, _, _, _, _, _)
BasisSum(s, tys, k, q, order, i) ==
  IF i > order THEN R(0)
  ELSE RAdd(RMul(Basis(s, k, q, order, i, 0), At(tys, k + i)),
            BasisSum(s, tys, k, q, order, i + 1))

LagrangianBinding ==
  \A t \in Threads :
    pc[t] = "lagr" =>
      /\ lg_idx[t] = idx[t]
      /\ lg_x[t] = x[t]
      /\ lg_order[t] = OrderOf(law[t])

\* C8: under the preconditions every index at which a call reads xs or ys
\* lies in [0, n-1].
ReadsInBounds ==
  \A t \in Threads : \A k \in reads[t] : 0 <= k /\ k <= n - 1

\* C2: on a table that tabulates a polynomial f of degree <= order,
\* Quadratic and Cubic return f(x) for every query x (stated for the calls
\* whose reads all fall inside the table, where the value is determined).
PolynomialExactness ==
  \A t \in Threads :
    pc[t] = "done" /\ HigherOrder(t) /\ WindowInBounds(t) =>
      \A p \in Polys :
        Degree(p) <= OrderOf(law[t]) /\ ys = Tabulate(p, xs) =>
          result[t] = Eval(p, x[t])

\* C3: for every law and every grid index k in the bracket or stencil
\* selected for the query x = xs[k], interpolate returns ys[k] (stated for
\* the calls whose reads all fall inside the table).
EndpointExactness ==
  \A t \in Threads :
    pc[t] = "done" /\ (HigherOrder(t) => WindowInBounds(t)) =>
      \A k \in 0..(n - 1) :
        /\ x[t] = At(xs, k)
        /\ idx[t] <= k
        /\ k <= idx[t] + (IF HigherOrder(t) THEN OrderOf(law[t]) ELSE 1)
        => result[t] = At(ys, k)

====
